---- MODULE Spec2Model ----
(***************************************************************************)
(* State-machine model of three optimizers of pytorch_optimizer:           *)
(*   SAM              (pytorch_optimizer/sam.py)                           *)
(*   Shampoo          (pytorch_optimizer/optimizer/shampoo.py)             *)
(*   ScalableShampoo  (pytorch_optimizer/optimizer/shampoo.py)             *)
(*                                                                         *)
(* Number model.  Every tensor is a one-element tensor.  A real x is held  *)
(* as the integer x * Unit (fixed point); products and quotients round     *)
(* toward zero, square roots round down.  The guards 1e-12 and 1e-16 that  *)
(* the code adds to a norm before dividing are below that resolution: they *)
(* only matter when the norm is 0, where they keep the quotient finite and *)
(* the product with the (then zero) gradient is 0.                         *)
(***************************************************************************)
EXTENDS Integers, Sequences, FiniteSets, TLC

\* ------------------------------------------------------------------ bounds
Unit == 10          \* fixed-point resolution: 1.0 is held as Unit
MaxCalls == 2       \* API calls made on one optimizer instance

\* ------------------------------------------------------------- arithmetic
Abs(a) == IF a < 0 THEN -a ELSE a

\* integer quotient rounded toward zero (b # 0)
TDiv(a, b) ==
    IF (a >= 0) = (b > 0) THEN Abs(a) \div Abs(b) ELSE -(Abs(a) \div Abs(b))

FMul(a, b) == TDiv(a * b, Unit)
FDiv(a, b) == TDiv(a * Unit, b)

\* the value of a local variable: the one element of a one-element set
The(S) == CHOOSE x \in S : TRUE

\* the r with r * r <= n < (r + 1) * (r + 1), given lo * lo <= n < hi * hi
RECURSIVE IsqrtIn(_, _, _)
IsqrtIn(n, lo, hi) ==
    IF hi - lo <= 1 THEN lo
    ELSE The({IF m > n \div m THEN IsqrtIn(n, lo, m) ELSE IsqrtIn(n, m, hi) :
                m \in {(lo + hi) \div 2}})

\* floor of the square root of n >= 0
Isqrt(n) == IsqrtIn(n, 0, n + 1)

RECURSIVE SumSq(_)
SumSq(xs) == IF xs = <<>> THEN 0 ELSE Head(xs) * Head(xs) + SumSq(Tail(xs))

\* torch.norm(., p=2) of a stack of scalars (fixed point in, fixed point out)
Norm2(xs) == Isqrt(SumSq(xs))

\* x / (norm + eps) for a norm >= 0 and a guard eps below the resolution.
\* With norm > 0 the guard is lost in rounding.  With norm = 0 the quotient
\* is x / eps: the record keeps x and marks it as carrying the factor 1 / eps.
DivGuard(x, norm) ==
    IF norm = 0 THEN [big |-> TRUE, v |-> x] ELSE [big |-> FALSE, v |-> FDiv(x, norm)]

\* x * q for a quotient q of DivGuard; 0 * (anything finite) = 0
TimesGuard(x, q) ==
    IF q.big THEN x * q.v * Unit * Unit * Unit ELSE FMul(x, q.v)

\* Optional values: None, or Some(v)
None == [some |-> FALSE, v |-> 0]
Some(x) == [some |-> TRUE, v |-> x]


\* ======================================================================
\*                                  SAM
\* ======================================================================
VARIABLES
    which,      \* the optimizer this behaviour exercises
    calls,      \* API calls made so far
    sam_cfg,    \* SAM: per-group rho / adaptive, base lr, zero_grad flavour
    sam,        \* SAM: parameters, gradients, optimizer state, observations
    sh_cfg,     \* Shampoo: hyper-parameters
    sh,         \* Shampoo: parameters, gradients, optimizer state, observations
    ss_cfg,     \* ScalableShampoo: hyper-parameters
    ss          \* ScalableShampoo: parameters, gradients, state, observations

vars == <<which, calls, sam_cfg, sam, sh_cfg, sh, ss_cfg, ss>>

\* the value of the variables of an optimizer the behaviour does not exercise
Idle == [idle |-> TRUE]

\* SAM.param_groups: two groups of one parameter; parameters are numbered in
\* iteration order (group by group, then within the group)
sam_param_groups == << <<1>>, <<2>> >>
SamParams == {1, 2}
GroupOf(q) == CHOOSE g \in 1..Len(sam_param_groups) :
                 \E i \in 1..Len(sam_param_groups[g]) : sam_param_groups[g][i] = q

\* values the caller's backward pass can leave in p.grad (fixed point)
SamGrads == {g \in [SamParams -> {None, Some(-3 * Unit), Some(4 * Unit)}] :
               g[1].v <= 0 /\ g[2].v >= 0}
\* what a closure's backward pass can add to p.grad, and what it can return
ClosureGrads == {None, Some(2 * Unit)}
Losses == {Unit, 2 * Unit}
\* initial parameter values, and the hyper-parameters of the groups
SamInitP == {<<-2 * Unit, 2 * Unit>>, <<3 * Unit, 2 * Unit>>}
SamRho == <<5 * Unit, 2 * Unit>>
SamLr == Unit \div 2

\* Optimizer.zero_grad(): gradients become None (set_to_none) or are zeroed
\* in place; a gradient that is None stays None
zero_grad(s) ==
    [s EXCEPT !.grad = [q \in SamParams |->
                          IF sam_cfg.set_to_none \/ ~s.grad[q].some THEN None ELSE Some(0)],
              !.log = Append(s.log, "zero_grad")]

\* the weight inside grad_norm: torch.abs(p) if adaptive else 1.0
NormWeight(adaptive, pv) == IF adaptive THEN Abs(pv) ELSE Unit

\* the weight of grad_norm taken for the step as well
StepWeightAlt(adaptive, pv) == IF adaptive THEN Abs(pv) ELSE Unit
\* the weight inside e_w: torch.pow(p, 2) if adaptive else 1.0
StepWeight(adaptive, pv) == IF adaptive THEN FMul(pv, pv) ELSE Unit

RECURSIVE WeightedGrads(_, _)
WeightedGrads(s, q) ==
    IF q > Cardinality(SamParams) THEN <<>>
    ELSE (IF s.grad[q].some
          THEN << Abs(FMul(NormWeight(sam_cfg.adaptive[GroupOf(q)], s.p[q]), s.grad[q].v)) >>
          ELSE <<>>) \o WeightedGrads(s, q + 1)

\* SAM.grad_norm: 2-norm of the stacked per-parameter norms of the weighted
\* gradients of every parameter, of every group, that has a gradient
grad_norm(s) == Norm2(WeightedGrads(s, 1))

\* e_w of one parameter (sam.py line 91), scale = rho / (grad_norm + 1e-12)
e_w(s, q, gn) ==
    TimesGuard(FMul(StepWeight(sam_cfg.adaptive[GroupOf(q)], s.p[q]), s.grad[q].v),
               DivGuard(sam_cfg.rho[GroupOf(q)], gn))

\* the part of the record that is program state (the rest is observation)
SamProg(s) == [p |-> s.p, grad |-> s.grad, old_p |-> s.old_p,
               alias |-> s.alias, base_steps |-> s.base_steps]

\* start of an API call: the observations of the previous call are dropped
Enter(s, name) ==
    [s EXCEPT !.last = name, !.raised = "", !.ret = None, !.log = <<>>, !.env = FALSE,
              !.call_grad = s.grad,
              !.call_old = {q \in SamParams : s.old_p[q].some}]

\* SAM.first_step body (sam.py 82-96), appended to the running call's log
first_step_body(s, zg) ==
    IF \A q \in SamParams : ~s.grad[q].some
    THEN \* torch.stack of an empty list raises inside grad_norm
         [s EXCEPT !.raised = "RuntimeError", !.log = Append(s.log, "first_step")]
    ELSE
      LET gn == grad_norm(s)
          moved == {q \in SamParams : s.grad[q].some}
          np == [q \in SamParams |->
                   IF q \in moved THEN s.p[q] + e_w(s, q, gn) ELSE s.p[q]]
          s1 == [s EXCEPT
                   !.old_p = [q \in SamParams |->
                                IF q \in moved THEN Some(s.p[q]) ELSE s.old_p[q]],
                   !.alias = [q \in SamParams |-> s.alias[q] /\ q \notin moved],
                   !.p = np,
                   !.log = Append(s.log, "first_step"),
                   !.entry_p = s.p,
                   !.entry_grad = s.grad,
                   !.moved_by = [q \in SamParams |-> np[q] - s.p[q]],
                   !.pert = moved,
                   !.open = TRUE]
      IN IF zg THEN zero_grad(s1) ELSE s1

\* base_optimizer.step(): the wrapped optimizer, taken to be plain SGD,
\* p.add_(grad, alpha=-lr) in place on every parameter that has a gradient.
\* A saved old_p that shares p.data's storage changes with it.
base_optimizer_step(s) ==
    LET np == [q \in SamParams |->
                 IF s.grad[q].some THEN s.p[q] - FMul(sam_cfg.lr, s.grad[q].v) ELSE s.p[q]]
    IN [s EXCEPT
          !.seen = s.p,
          !.seen_grad = s.grad,
          !.p = np,
          !.old_p = [q \in SamParams |-> IF s.alias[q] THEN Some(np[q]) ELSE s.old_p[q]],
          !.base_steps = s.base_steps + 1,
          !.log = Append(s.log, "base_step")]

\* a second_step that also rejects a parameter no first_step has perturbed
\* since the last second_step
NoOldPAlt(s) == {q \in SamParams : s.grad[q].some /\ (~s.old_p[q].some \/ ~s.open)}
\* the parameters second_step's loop fails on: self.state[p]['old_p'] of a
\* parameter that has a gradient and no saved old_p is a KeyError
NoOldP(s) == {q \in SamParams : s.grad[q].some /\ ~s.old_p[q].some}

\* SAM.second_step body (sam.py 99-111).  The loop runs in iteration order
\* and stops at the first parameter of NoOldP; what it restored stays
\* restored, and the base optimizer does not run.
second_step_body(s, zg) ==
    LET bad == NoOldP(s)
        stop == IF bad = {} THEN Cardinality(SamParams) + 1
                ELSE CHOOSE q \in bad : \A r \in bad : q <= r
        done == {q \in SamParams : s.grad[q].some /\ q < stop}
        s1 == [s EXCEPT
                 !.p = [q \in SamParams |-> IF q \in done THEN s.old_p[q].v ELSE s.p[q]],
                 !.alias = [q \in SamParams |-> s.alias[q] \/ q \in done],
                 !.log = Append(s.log, "second_step"),
                 !.from_open = s.open,
                 !.open = FALSE]
    IN IF bad # {}
       THEN [s1 EXCEPT !.raised = "KeyError"]
       ELSE LET s2 == base_optimizer_step(s1)
            IN IF zg THEN zero_grad(s2) ELSE s2

\* The closure argument of step: closure=None, or a callable.
NoClosure == [given |-> FALSE, g |-> [q \in SamParams |-> None], loss |-> 0]
SamClosures == [given : {TRUE}, g : [SamParams -> ClosureGrads], loss : {2 * Unit}]

\* the closure: a fresh forward/backward pass.  cl.g[q] is what backward
\* accumulates into p.grad (None: q is not part of the graph), cl.loss the
\* value it returns
run_closure(s, cl) ==
    [s EXCEPT
       !.grad = [q \in SamParams |->
                   IF cl.g[q].some
                   THEN Some((IF s.grad[q].some THEN s.grad[q].v ELSE 0) + cl.g[q].v)
                   ELSE s.grad[q]],
       !.log = Append(s.log, "closure")]

SAM_first_step(s, zg) == first_step_body(Enter(s, "first_step"), zg)
SAM_second_step(s, zg) == second_step_body(Enter(s, "second_step"), zg)

\* SAM.step with the closure test after first_step instead of before it
SAM_stepAlt(s, cl) ==
    LET s0 == [Enter(s, "step") EXCEPT !.had_closure = cl.given, !.closure = cl,
                                       !.start_p = s.p]
        s1 == first_step_body(s0, TRUE)
    IN IF ~cl.given THEN [s1 EXCEPT !.raised = "RuntimeError"]
       ELSE IF s1.raised # "" THEN s1
       ELSE second_step_body(run_closure(s1, cl), FALSE)
\* SAM.step (sam.py 114-123).  There is no return statement: ret stays None.
SAM_step(s, cl) ==
    LET s0 == [Enter(s, "step") EXCEPT !.had_closure = cl.given, !.closure = cl,
                                       !.start_p = s.p]
    IN IF ~cl.given THEN [s0 EXCEPT !.raised = "RuntimeError"]
       ELSE LET s1 == first_step_body(s0, TRUE)
            IN IF s1.raised # "" THEN s1
               ELSE second_step_body(run_closure(s1, cl), FALSE)

SamInit ==
    /\ which = "SAM"
    /\ calls = 0
    /\ sh_cfg = Idle /\ sh = Idle /\ ss_cfg = Idle /\ ss = Idle
    /\ sam_cfg \in [rho : {SamRho},
                    adaptive : [1..Len(sam_param_groups) -> BOOLEAN],
                    lr : {SamLr},
                    set_to_none : BOOLEAN]
    /\ \E p0 \in SamInitP :
         sam = [p |-> p0, grad |-> [q \in SamParams |-> None],
                old_p |-> [q \in SamParams |-> None],
                alias |-> [q \in SamParams |-> FALSE],
                base_steps |-> 0,
                last |-> "", raised |-> "", ret |-> None, log |-> <<>>, env |-> FALSE,
                call_grad |-> [q \in SamParams |-> None], call_old |-> {},
                moved_by |-> [q \in SamParams |-> 0],
                entry_p |-> p0, entry_grad |-> [q \in SamParams |-> None],
                pert |-> {}, open |-> FALSE, from_open |-> FALSE,
                seen |-> p0, seen_grad |-> [q \in SamParams |-> None],
                had_closure |-> FALSE, closure |-> NoClosure, start_p |-> p0]

\* the caller between two calls: loss.backward(), or clearing gradients
SamBackward ==
    /\ which = "SAM" /\ calls < MaxCalls /\ ~sam.env
    /\ \E g \in SamGrads : sam' = [sam EXCEPT !.grad = g, !.env = TRUE]
    /\ UNCHANGED <<which, calls, sam_cfg, sh_cfg, sh, ss_cfg, ss>>

SamFirstStep ==
    /\ which = "SAM" /\ calls < MaxCalls
    /\ \E zg \in BOOLEAN : sam' = SAM_first_step(sam, zg)
    /\ calls' = calls + 1
    /\ UNCHANGED <<which, sam_cfg, sh_cfg, sh, ss_cfg, ss>>

SamSecondStep ==
    /\ which = "SAM" /\ calls < MaxCalls
    /\ \E zg \in BOOLEAN : sam' = SAM_second_step(sam, zg)
    /\ calls' = calls + 1
    /\ UNCHANGED <<which, sam_cfg, sh_cfg, sh, ss_cfg, ss>>

SamStep ==
    /\ which = "SAM" /\ calls < MaxCalls
    /\ \E cl \in {NoClosure} \cup SamClosures : sam' = SAM_step(sam, cl)
    /\ calls' = calls + 1
    /\ UNCHANGED <<which, sam_cfg, sh_cfg, sh, ss_cfg, ss>>

SamNext == SamBackward \/ SamFirstStep \/ SamSecondStep \/ SamStep

SpecSAM == SamInit /\ [][SamNext]_vars

\* ======================================================================
\*                            Shampoo (basic)
\* ======================================================================
\* one parameter group of two parameters, numbered in iteration order
ShParams == {1, 2}
NParams == Cardinality(ShParams)

\* p.grad of a parameter: None, a sparse tensor, or a dense value
NoGrad == [some |-> FALSE, sparse |-> FALSE, v |-> 0]
SparseGrad == [some |-> TRUE, sparse |-> TRUE, v |-> 0]
Dense(x) == [some |-> TRUE, sparse |-> FALSE, v |-> x]
ShGrads == {NoGrad, SparseGrad, Dense(2 * Unit), Dense(-3 * Unit)}
\* the gradients the ScalableShampoo behaviours draw, parameter by parameter
SsGrads == {g \in [ShParams -> ShGrads] :
              g[1].v \in {0, 2 * Unit} /\ g[2].v \in {0, -3 * Unit}}

\* The closure argument of Shampoo.step / ScalableShampoo.step: None, or a
\* callable that clears the gradients, runs forward and backward (leaving
\* cl.g in p.grad) and returns cl.loss
ShNoClosure == [given |-> FALSE, g |-> [q \in ShParams |-> NoGrad], loss |-> 0]
ShClosures == [given : {TRUE}, g : {[q \in ShParams |-> Dense(2 * Unit)]}, loss : Losses]

\* self.state[p] of a parameter no step and no reset has touched: {}
ShEmptyState == [keys |-> {}, step |-> 0, momentum_buffer |-> 0,
                 pre_cond_0 |-> 0, inv_pre_cond_0 |-> 0]

\* compute_power_svd(M, p) for a 1x1 matrix M = [m], m > 0, and p = -1/order
\* with order = 1: m^(-1)
compute_power_svd(m) == FDiv(Unit, m)

\* the lazy initialisation of Shampoo.step (shampoo.py 88-96)
ShLazyInit(g) ==
    [keys |-> {"step", "pre_cond_0", "inv_pre_cond_0"}
                \cup (IF sh_cfg.momentum > 0 THEN {"momentum_buffer"} ELSE {}),
     step |-> 0,
     momentum_buffer |-> IF sh_cfg.momentum > 0 THEN g ELSE 0,
     pre_cond_0 |-> sh_cfg.matrix_eps,
     inv_pre_cond_0 |-> 0]

\* Shampoo.step on one parameter with a dense gradient (shampoo.py 87-129):
\* [p, g, st, raised], g being what is left in p.grad, which the momentum
\* blend and the weight decay change in place
Shampoo_update(pv, g, st) ==
    LET st0 == IF st.keys = {} THEN ShLazyInit(g) ELSE st
        m == sh_cfg.momentum
        g1 == IF m > 0 THEN FMul(g, Unit - m) ELSE g
        g2 == IF m > 0 THEN g1 + FMul(m, st0.momentum_buffer) ELSE g1
        g3 == IF sh_cfg.weight_decay > 0 THEN g2 + FMul(sh_cfg.weight_decay, pv) ELSE g2
        pc == st0.pre_cond_0 + FMul(g3, g3)
        inv == IF st0.step % sh_cfg.preconditioning_compute_steps = 0
               THEN compute_power_svd(pc) ELSE st0.inv_pre_cond_0
        ng == FMul(g3, inv)
    IN IF m > 0 /\ "momentum_buffer" \notin st0.keys
       THEN [p |-> pv, g |-> g1, st |-> st0, raised |-> "KeyError"]
       ELSE IF "pre_cond_0" \notin st0.keys
       THEN [p |-> pv, g |-> g3, st |-> st0, raised |-> "KeyError"]
       ELSE [p |-> pv - FMul(sh_cfg.lr, ng),
             g |-> g3,
             st |-> [keys |-> st0.keys \cup {"momentum_buffer"},
                     step |-> st0.step + 1,
                     momentum_buffer |-> ng,
                     pre_cond_0 |-> pc,
                     inv_pre_cond_0 |-> inv],
             raised |-> ""]

\* what the loop body leaves of parameter q: p, p.grad and self.state[p]
\* were changed in place
Shampoo_commit(s, q, u) ==
    [s EXCEPT !.p[q] = u.p, !.grad[q] = Dense(u.g), !.st[q] = u.st,
              !.raised = u.raised,
              !.log = Append(s.log, IF u.raised = "" THEN "update" ELSE "fail"),
              !.touched = s.touched \cup {q}]

\* a loop that creates the state of a parameter before it looks at the
\* gradient's layout
RECURSIVE Shampoo_loopAlt(_, _)
Shampoo_loopAlt(s, q) ==
    IF q > NParams THEN s
    ELSE IF ~s.grad[q].some THEN Shampoo_loopAlt(s, q + 1)
    ELSE IF s.grad[q].sparse
    THEN [s EXCEPT !.raised = "NoSparseGradientError",
                   !.st[q] = IF @.keys = {} THEN ShLazyInit(0) ELSE @]
    ELSE The({IF s1.raised # "" THEN s1 ELSE Shampoo_loopAlt(s1, q + 1) :
                s1 \in {Shampoo_commit(s, q, u) :
                          u \in {Shampoo_update(s.p[q], s.grad[q].v, s.st[q])}}})

\* the loop of Shampoo.step over the parameters from q on (shampoo.py 77-129)
RECURSIVE Shampoo_loop(_, _)
Shampoo_loop(s, q) ==
    IF q > NParams THEN s
    ELSE IF ~s.grad[q].some THEN Shampoo_loop(s, q + 1)
    ELSE IF s.grad[q].sparse
    THEN [s EXCEPT !.raised = "NoSparseGradientError"]
    ELSE The({IF s1.raised # "" THEN s1 ELSE Shampoo_loop(s1, q + 1) :
                s1 \in {Shampoo_commit(s, q, u) :
                          u \in {Shampoo_update(s.p[q], s.grad[q].v, s.st[q])}}})

\* start of an API call on Shampoo / ScalableShampoo
ShEnter(s, name, cl) ==
    [s EXCEPT !.last = name, !.raised = "", !.ret = None, !.log = <<>>, !.env = FALSE,
              !.touched = {}, !.had_closure = cl.given, !.closure = cl,
              !.before = [p |-> s.p, st |-> s.st]]

\* loss = closure() (shampoo.py 72-75)
ShRunClosure(s, cl) ==
    IF cl.given
    THEN [s EXCEPT !.grad = cl.g, !.loss = Some(cl.loss), !.log = Append(s.log, "closure")]
    ELSE [s EXCEPT !.loss = None]

\* a step without its return statement
ReturnedLossAlt(s) == None
\* what step returns when the loop completes (shampoo.py 131, 363)
ReturnedLoss(s) == s.loss

\* Shampoo.step (shampoo.py 70-131)
Shampoo_step(s, cl) ==
    The({IF s3.raised # "" THEN s3 ELSE [s3 EXCEPT !.ret = ReturnedLoss(s3)] :
           s3 \in {Shampoo_loop(s2, 1) :
                     s2 \in {[s1 EXCEPT !.given = s1.grad] :
                               s1 \in {ShRunClosure(ShEnter(s, "step", cl), cl)}}}})

\* Shampoo.reset (shampoo.py 62-68): state['step'] = 0 on every parameter
Shampoo_reset(s) ==
    [ShEnter(s, "reset", ShNoClosure) EXCEPT
       !.st = [q \in ShParams |-> [s.st[q] EXCEPT !.keys = @ \cup {"step"}, !.step = 0]]]

\* A second optimizer, constructed by the caller when reset() is called, on
\* parameters holding the same values, and given the same gradients and
\* closures from then on: what step (a step operator) makes of it
TwinAtReset(s, empty) ==
    [on |-> TRUE, p |-> s.p, st |-> [q \in ShParams |-> empty], raised |-> ""]
TwinAfter(s, t) ==
    IF s.twin.on THEN [on |-> TRUE, p |-> t.p, st |-> t.st, raised |-> t.raised]
    ELSE s.twin
OnTwin(s) == [s EXCEPT !.p = s.twin.p, !.st = s.twin.st]

ShInitRecord(st0) ==
    [p |-> [q \in ShParams |-> 2 * Unit],
     grad |-> [q \in ShParams |-> NoGrad],
     st |-> [q \in ShParams |-> st0],
     loss |-> None,
     last |-> "", raised |-> "", ret |-> None, log |-> <<>>, env |-> FALSE,
     touched |-> {}, had_closure |-> FALSE, closure |-> ShNoClosure,
     twin |-> [on |-> FALSE, p |-> [q \in ShParams |-> 2 * Unit],
               st |-> [q \in ShParams |-> st0], raised |-> ""],
     given |-> [q \in ShParams |-> NoGrad],
     before |-> [p |-> [q \in ShParams |-> 2 * Unit], st |-> [q \in ShParams |-> st0]]]

ShInit ==
    /\ which = "Shampoo"
    /\ calls = 0
    /\ sam_cfg = Idle /\ sam = Idle /\ ss_cfg = Idle /\ ss = Idle
    /\ sh_cfg \in [lr : {Unit},
                   momentum : {0, Unit \div 2},
                   weight_decay : {0, Unit \div 2},
                   preconditioning_compute_steps : {1, 2},
                   matrix_eps : {1}]
    /\ sh = ShInitRecord(ShEmptyState)

\* the caller between two calls: loss.backward(), or clearing gradients
ShBackward ==
    /\ which = "Shampoo" /\ calls < MaxCalls /\ ~sh.env
    /\ \E g \in [ShParams -> ShGrads] : sh' = [sh EXCEPT !.grad = g, !.env = TRUE]
    /\ UNCHANGED <<which, calls, sam_cfg, sam, sh_cfg, ss_cfg, ss>>

ShStep ==
    /\ which = "Shampoo" /\ calls < MaxCalls
    /\ \E cl \in {ShNoClosure} \cup ShClosures :
         \E u \in {Shampoo_step(sh, cl)}, t \in {Shampoo_step(OnTwin(sh), cl)} :
            sh' = [u EXCEPT !.twin = TwinAfter(sh, t)]
    /\ calls' = calls + 1
    /\ UNCHANGED <<which, sam_cfg, sam, sh_cfg, ss_cfg, ss>>

ShReset ==
    /\ which = "Shampoo" /\ calls < MaxCalls
    /\ sh' = [Shampoo_reset(sh) EXCEPT !.twin = TwinAtReset(sh, ShEmptyState)]
    /\ calls' = calls + 1
    /\ UNCHANGED <<which, sam_cfg, sam, sh_cfg, ss_cfg, ss>>

ShNext == ShBackward \/ ShStep \/ ShReset

SpecShampoo == ShInit /\ [][ShNext]_vars

\* ======================================================================
\*                           ScalableShampoo
\* ======================================================================
\* square root of a fixed-point number
FSqrt(x) == Isqrt(x * Unit)

\* PreConditioner(p, beta2, ...) for a one-element parameter: one statistics
\* matrix and one inverse-root matrix, both 1x1
PreConditioner_new ==
    [statistics |-> ss_cfg.matrix_eps, pre_conditioner |-> Unit,
     n_statistics |-> 0, n_computed |-> 0]

\* PreConditioner.add_statistics(grad): g g^T into the statistics, as a raw
\* sum when beta2 = 1 and as a moving average otherwise
PreConditioner_add_statistics(pc, g) ==
    LET b2 == ss_cfg.beta2
        w2 == IF b2 = Unit THEN Unit ELSE Unit - b2
    IN [pc EXCEPT !.statistics = FMul(b2, pc.statistics) + FMul(w2, FMul(g, g)),
                  !.n_statistics = pc.n_statistics + 1]

\* PreConditioner.compute_pre_conditioners(): statistics^(-1/(2*order)), order 1
PreConditioner_compute_pre_conditioners(pc) ==
    [pc EXCEPT !.pre_conditioner = FDiv(Unit, FSqrt(pc.statistics)),
               !.n_computed = IF pc.n_statistics > 0 THEN pc.n_computed + 1
                              ELSE pc.n_computed]

\* PreConditioner.preconditioned_grad(grad): a new tensor
PreConditioner_preconditioned_grad(pc, g) == FMul(g, pc.pre_conditioner)

\* Graft / SGDGraft / AdaGradGraft / RMSPropGraft / SQRTNGraft (p, eps)
Graft_new == [statistics |-> 0, momentum |-> 0]

Graft_add_statistics(gr, g) ==
    LET b2 == ss_cfg.beta2 IN
    CASE ss_cfg.graft_type = "ADAGRAD" ->
            [gr EXCEPT !.statistics = gr.statistics + FMul(g, g)]
      [] ss_cfg.graft_type = "RMSPROP" ->
            [gr EXCEPT !.statistics = FMul(b2, gr.statistics) + FMul(Unit - b2, FMul(g, g))]
      [] OTHER -> gr

\* Graft.precondition_gradient(grad): a new tensor (its argument,
\* grad * multiplier, already is one); numel = 1 for SQRT-N
Graft_precondition_gradient(gr, g) ==
    IF ss_cfg.graft_type \in {"ADAGRAD", "RMSPROP"}
    THEN FDiv(g, FSqrt(gr.statistics) + ss_cfg.diagonal_eps)
    ELSE g

\* Graft.update_momentum(grad, beta1): m <- beta1 * m + grad, and m itself
\* (the buffer the graft keeps) is what the call returns
Graft_update_momentum(gr, g) ==
    [gr EXCEPT !.momentum = FMul(ss_cfg.beta1, gr.momentum) + g]

\* self.state[p] after the lazy initialisation (shampoo.py 289-312), which is
\* also what reset() stores (shampoo.py 244-266)
SsFreshState ==
    [keys |-> {"step", "momentum", "pre_conditioner", "graft"},
     step |-> 0, momentum |-> 0,
     pre_conditioner |-> PreConditioner_new, graft |-> Graft_new]

SsEmptyState == [SsFreshState EXCEPT !.keys = {}]

\* a boundary one step late
is_precondition_stepAlt(step) == step > ss_cfg.start_preconditioning_step
\* ScalableShampoo.is_precondition_step (shampoo.py 268-269)
is_precondition_step(step) == step >= ss_cfg.start_preconditioning_step

\* the Nesterov blend of shampoo.py 355-359 of momentum_update with wd_update
NesterovBlend(mu, wdu) ==
    IF ss_cfg.nesterov
    THEN FMul(ss_cfg.beta1, mu)
           + FMul(wdu, IF ss_cfg.moving_average_for_momentum
                       THEN Unit - ss_cfg.beta1 ELSE Unit)
    ELSE mu

\* weight decay of shampoo.py 337-343 on a gradient x of the parameter pv
SsWeightDecay(x, pv) ==
    IF ss_cfg.weight_decay > 0
    THEN IF ~ss_cfg.decoupled_weight_decay
         THEN x + FMul(ss_cfg.weight_decay, pv)
         ELSE FMul(x, Unit - FMul(ss_cfg.lr, ss_cfg.weight_decay))
    ELSE x

\* the tensor momentum_update names when preconditioning is active
\* (shampoo.py 349): state['momentum'] itself, so the in-place blend of
\* line 359 lands in the persisted momentum
PersistedMomentum(m1, blended, precond) == IF precond THEN blended ELSE m1

\* a schedule that tests the counter it found instead of the incremented one
SsStatisticsAlt(g, st0) ==
    LET k == st0.step + 1
        pc1 == IF st0.step % ss_cfg.statistics_compute_steps = 0
               THEN PreConditioner_add_statistics(st0.pre_conditioner, g)
               ELSE st0.pre_conditioner
    IN [k |-> k,
        graft |-> Graft_add_statistics(st0.graft, g),
        pre_conditioner |-> IF st0.step % ss_cfg.preconditioning_compute_steps = 0
                            THEN PreConditioner_compute_pre_conditioners(pc1)
                            ELSE pc1]

\* shampoo.py 314-323: the step counter, graft.add_statistics, and the
\* pre-conditioner's add_statistics / compute_pre_conditioners when due
SsStatistics(g, st0) ==
    LET k == st0.step + 1
        pc1 == IF k % ss_cfg.statistics_compute_steps = 0
               THEN PreConditioner_add_statistics(st0.pre_conditioner, g)
               ELSE st0.pre_conditioner
    IN [k |-> k,
        graft |-> Graft_add_statistics(st0.graft, g),
        pre_conditioner |-> IF k % ss_cfg.preconditioning_compute_steps = 0
                            THEN PreConditioner_compute_pre_conditioners(pc1)
                            ELSE pc1]

\* shampoo.py 325-329: graft_grad, and shampoo_grad, which is p.grad itself
\* unless preconditioned_grad replaces it
SsGradients(g, a) ==
    [graft_grad |-> Graft_precondition_gradient(
                       a.graft,
                       FMul(g, IF ~ss_cfg.decoupled_learning_rate THEN ss_cfg.lr ELSE Unit)),
     shampoo_grad |-> IF is_precondition_step(a.k)
                      THEN PreConditioner_preconditioned_grad(a.pre_conditioner, g)
                      ELSE g]

\* shampoo.py 331-335: shampoo_grad rescaled to the norm of graft_grad
SsRescale(r) ==
    IF ss_cfg.graft_type # "NONE"
    THEN [r EXCEPT !.shampoo_grad =
                      TimesGuard(r.shampoo_grad,
                                 DivGuard(Abs(r.graft_grad), Abs(r.shampoo_grad)))]
    ELSE r

\* shampoo.py 337-343 on both gradients
SsDecay(r, pv) ==
    [shampoo_grad |-> SsWeightDecay(r.shampoo_grad, pv),
     graft_grad |-> SsWeightDecay(r.graft_grad, pv)]

\* what p.grad holds by line 346: the in-place rescale and weight decay went
\* into it when shampoo_grad is p.grad itself
SsGradNow(g, a, d) == IF is_precondition_step(a.k) THEN g ELSE d.shampoo_grad

\* shampoo.py 345-346: state['momentum'] and the graft's momentum
SsMomenta(g, st0, a, d) ==
    [momentum |-> FMul(ss_cfg.beta1, st0.momentum) + d.shampoo_grad,
     graft |-> Graft_update_momentum(a.graft, SsGradNow(g, a, d))]

\* shampoo.py 348-361: the choice of path, the Nesterov blend, the update;
\* [p, g, st, obs], g being what is left in p.grad
SsApply(pv, g, st0, a, d, m) ==
    LET precond == is_precondition_step(a.k)
        mu == IF precond THEN m.momentum ELSE m.graft.momentum
        wdu == IF precond THEN d.shampoo_grad ELSE d.graft_grad
    IN The({[p |-> pv - FMul(ss_cfg.lr, blended),
             g |-> SsGradNow(g, a, d),
             st |-> [keys |-> st0.keys,
                     step |-> a.k,
                     momentum |-> PersistedMomentum(m.momentum, blended, precond),
                     pre_conditioner |-> a.pre_conditioner,
                     graft |-> IF precond THEN m.graft
                               ELSE [m.graft EXCEPT !.momentum = blended]],
             obs |-> [k |-> a.k,
                      momentum_update |-> IF precond THEN "state.momentum"
                                          ELSE "graft_momentum",
                      wd_update |-> IF precond THEN "shampoo_grad" ELSE "graft_grad",
                      m_before |-> st0.momentum,
                      shampoo_grad |-> d.shampoo_grad,
                      graft_grad |-> d.graft_grad,
                      state_momentum |-> m.momentum,
                      graft_momentum |-> m.graft.momentum,
                      ev |-> <<"graft.add_statistics">>
                               \o (IF a.k % ss_cfg.statistics_compute_steps = 0
                                   THEN <<"add_statistics">> ELSE <<>>)
                               \o (IF a.k % ss_cfg.preconditioning_compute_steps = 0
                                   THEN <<"compute_pre_conditioners">> ELSE <<>>)
                               \o (IF precond THEN <<"preconditioned_grad">> ELSE <<>>)]] :
            blended \in {NesterovBlend(mu, wdu)}})

\* ScalableShampoo.step on one parameter with a dense gradient
\* (shampoo.py 288-361), statement by statement
ScalableShampoo_update(pv, g, st) ==
    The({The({The({The({The({SsApply(pv, g, st0, a, d, m) :
                               m \in {SsMomenta(g, st0, a, d)}}) :
                          d \in {SsDecay(r, pv)}}) :
                     r \in {SsRescale(r0) : r0 \in {SsGradients(g, a)}}}) :
                a \in {SsStatistics(g, st0)}}) :
           st0 \in {IF st.keys = {} THEN SsFreshState ELSE st}})

\* what the loop body leaves of parameter q
ScalableShampoo_commit(s, q, u) ==
    [s EXCEPT !.p[q] = u.p, !.grad[q] = Dense(u.g), !.st[q] = u.st,
              !.obs[q] = u.obs,
              !.log = Append(s.log, "update"),
              !.touched = s.touched \cup {q}]

\* the loop of ScalableShampoo.step over the parameters from q on
\* (shampoo.py 278-361)
RECURSIVE ScalableShampoo_loop(_, _)
ScalableShampoo_loop(s, q) ==
    IF q > NParams THEN s
    ELSE IF ~s.grad[q].some THEN ScalableShampoo_loop(s, q + 1)
    ELSE IF s.grad[q].sparse
    THEN [s EXCEPT !.raised = "NoSparseGradientError"]
    ELSE The({ScalableShampoo_loop(s1, q + 1) :
                s1 \in {ScalableShampoo_commit(s, q, u) :
                          u \in {ScalableShampoo_update(s.p[q], s.grad[q].v, s.st[q])}}})

\* ScalableShampoo.step (shampoo.py 271-363)
ScalableShampoo_step(s, cl) ==
    The({IF s3.raised # "" THEN s3 ELSE [s3 EXCEPT !.ret = ReturnedLoss(s3)] :
           s3 \in {ScalableShampoo_loop(s2, 1) :
                     s2 \in {[s1 EXCEPT !.given = s1.grad] :
                               s1 \in {ShRunClosure(ShEnter(s, "step", cl), cl)}}}})

\* ScalableShampoo.reset (shampoo.py 238-266)
ScalableShampoo_reset(s) ==
    [ShEnter(s, "reset", ShNoClosure) EXCEPT !.st = [q \in ShParams |-> SsFreshState]]

SsNoObs == [k |-> 0, momentum_update |-> "", wd_update |-> "", m_before |-> 0,
            shampoo_grad |-> 0, graft_grad |-> 0, state_momentum |-> 0,
            graft_momentum |-> 0, ev |-> <<>>]

\* the configurations explored
SsConfigs ==
    [lr : {Unit}, beta1 : {Unit \div 2}, beta2 : {Unit},
     weight_decay : {0, Unit \div 2},
     decoupled_weight_decay : BOOLEAN,
     decoupled_learning_rate : {TRUE},
     start_preconditioning_step : {1, 2},
     preconditioning_compute_steps : {1},
     statistics_compute_steps : {1},
     graft_type : {"NONE", "SGD", "ADAGRAD"},
     nesterov : BOOLEAN,
     moving_average_for_momentum : BOOLEAN,
     matrix_eps : {1}, diagonal_eps : {1}]

SsInit ==
    /\ which = "ScalableShampoo"
    /\ calls = 0
    /\ sam_cfg = Idle /\ sam = Idle /\ sh_cfg = Idle /\ sh = Idle
    /\ ss_cfg \in {c \in SsConfigs : c.weight_decay = 0 => ~c.decoupled_weight_decay}
    /\ ss = [ShInitRecord(SsEmptyState) EXCEPT !.p = [q \in ShParams |-> 2 * Unit]]
              @@ [obs |-> [q \in ShParams |-> SsNoObs]]

SsBackward ==
    /\ which = "ScalableShampoo" /\ calls < MaxCalls /\ ~ss.env
    /\ \E g \in SsGrads : ss' = [ss EXCEPT !.grad = g, !.env = TRUE]
    /\ UNCHANGED <<which, calls, sam_cfg, sam, sh_cfg, sh, ss_cfg>>

SsStep ==
    /\ which = "ScalableShampoo" /\ calls < MaxCalls
    /\ \E cl \in {ShNoClosure} \cup ShClosures :
         \E u \in {ScalableShampoo_step(ss, cl)},
            t \in {ScalableShampoo_step(OnTwin(ss), cl)} :
            ss' = [u EXCEPT !.twin = TwinAfter(ss, t)]
    /\ calls' = calls + 1
    /\ UNCHANGED <<which, sam_cfg, sam, sh_cfg, sh, ss_cfg>>

SsReset ==
    /\ which = "ScalableShampoo" /\ calls < MaxCalls
    /\ ss' = [ScalableShampoo_reset(ss) EXCEPT !.twin = TwinAtReset(ss, SsEmptyState)]
    /\ calls' = calls + 1
    /\ UNCHANGED <<which, sam_cfg, sam, sh_cfg, sh, ss_cfg>>

SsNext == SsBackward \/ SsStep \/ SsReset

SpecScalable == SsInit /\ [][SsNext]_vars

\* ScalableShampoo under the configurations that vary the three periods
\* validate_parameters accepts (each >= 1), Nesterov momentum on, no weight
\* decay
SsScheduleConfigs ==
    [lr : {Unit}, beta1 : {Unit \div 2}, beta2 : {Unit},
     weight_decay : {0},
     decoupled_weight_decay : {FALSE},
     decoupled_learning_rate : {TRUE},
     start_preconditioning_step : {1, 2},
     preconditioning_compute_steps : {1, 2},
     statistics_compute_steps : {1, 2},
     graft_type : {"SGD", "ADAGRAD"},
     nesterov : {TRUE},
     moving_average_for_momentum : {FALSE},
     matrix_eps : {1}, diagonal_eps : {1}]

SsScheduleInit ==
    /\ which = "ScalableShampoo"
    /\ calls = 0
    /\ sam_cfg = Idle /\ sam = Idle /\ sh_cfg = Idle /\ sh = Idle
    /\ ss_cfg \in SsScheduleConfigs
    /\ ss = [ShInitRecord(SsEmptyState) EXCEPT !.p = [q \in ShParams |-> 2 * Unit]]
              @@ [obs |-> [q \in ShParams |-> SsNoObs]]

SpecSchedule == SsScheduleInit /\ [][SsNext]_vars

\* ======================================================================
\*                     any one of the three optimizers
\* ======================================================================
Init == SamInit \/ ShInit \/ SsInit
Next == SamNext \/ ShNext \/ SsNext
Spec == Init /\ [][Next]_vars

\* ----------------------------------------------------------------------
\*                           SAM: the claims
\* ----------------------------------------------------------------------
SamRan(name) == \E i \in 1..Len(sam.log) : sam.log[i] = name

\* C1 (as claimed): when second_step follows a first_step, every parameter
\* that first_step perturbed has, at the moment base_optimizer.step() runs,
\* the value it had just before that first_step, whatever the gradients are
\* at second_step time.
C1_RestoredBeforeBaseStep ==
    (SamRan("second_step") /\ SamRan("base_step") /\ sam.from_open)
        => \A q \in sam.pert : sam.seen[q] = sam.entry_p[q]

\* the base optimizer's rule applied once to value pv with gradient g
BaseRule(pv, g) == IF g.some THEN pv - FMul(sam_cfg.lr, g.v) ELSE pv

\* C2 (as claimed): a completed step(closure) runs first_step(zero_grad),
\* closure, second_step in that order, and leaves every parameter at the
\* base optimizer's update of its value before the call, with the gradient
\* the closure produced; nothing of e_w is left.
C2_StepIsBaseUpdateAtOrigin ==
    (sam.last = "step" /\ sam.had_closure /\ sam.raised = "")
        => /\ sam.log = <<"first_step", "zero_grad", "closure", "second_step", "base_step">>
           /\ \A q \in SamParams : sam.p[q] = BaseRule(sam.start_p[q], sam.seen_grad[q])

\* first_step ran in the last call and got past grad_norm
FirstStepRan == SamRan("first_step") /\ \E q \in SamParams : sam.call_grad[q].some

RECURSIVE SetSum(_, _)
SetSum(S, f) == IF S = {} THEN 0
                ELSE LET x == CHOOSE y \in S : TRUE IN f[x] + SetSum(S \ {x}, f)

\* the global 2-norm, over all groups, of the gradients weighted by wn[q]
ClaimedNorm(wn) ==
    LET G == {q \in SamParams : sam.entry_grad[q].some}
        x == [q \in G |-> Abs(FMul(wn[q], sam.entry_grad[q].v))]
        sq == [q \in G |-> x[q] * x[q]]
    IN Isqrt(SetSum(G, sq))

\* rho * w * grad / (grad_norm + 1e-12) with step weight ws and norm weight wn
ClaimedMove(q, ws, wn) ==
    TimesGuard(FMul(ws[q], sam.entry_grad[q].v),
               DivGuard(sam_cfg.rho[GroupOf(q)], ClaimedNorm(wn)))

WAbs == [q \in SamParams |->
           IF sam_cfg.adaptive[GroupOf(q)] THEN Abs(sam.entry_p[q]) ELSE Unit]
WSquare == [q \in SamParams |->
           IF sam_cfg.adaptive[GroupOf(q)] THEN FMul(sam.entry_p[q], sam.entry_p[q]) ELSE Unit]

\* C3 (as claimed): first_step moves every parameter that has a gradient by
\* rho * w * grad / (grad_norm + 1e-12), w = |p| in an adaptive group (the
\* weight of grad_norm) and 1 otherwise; a parameter without gradient stays.
C3_MovedByAbsWeight ==
    FirstStepRan =>
        \A q \in SamParams :
            sam.moved_by[q] = IF sam.entry_grad[q].some THEN ClaimedMove(q, WAbs, WAbs) ELSE 0

\* C3 (amended): the same with w = p^2 in an adaptive group, while grad_norm
\* still weights the gradients by |p|.
C3_MovedBySquareWeight ==
    FirstStepRan =>
        \A q \in SamParams :
            sam.moved_by[q] = IF sam.entry_grad[q].some THEN ClaimedMove(q, WSquare, WAbs) ELSE 0

\* C3 witness: a lone first_step moved a parameter of an adaptive group, and
\* the two weights give different moves; the other parameter had no gradient.
C3_Witness ==
    /\ sam.last = "first_step" /\ FirstStepRan
    /\ \E q \in SamParams :
         /\ sam_cfg.adaptive[GroupOf(q)] /\ sam.entry_grad[q].some
         /\ sam.moved_by[q] # 0
         /\ ClaimedMove(q, WSquare, WAbs) # ClaimedMove(q, WAbs, WAbs)
    /\ \E q \in SamParams : ~sam.entry_grad[q].some

\* C4: step(closure=None) raises at once and changes no parameter, gradient,
\* saved old_p or base-optimizer state; no phase and no base step ran.
C4_NoClosureMutatesNothing ==
    [][(calls' = calls + 1 /\ sam'.last = "step" /\ ~sam'.had_closure)
          => /\ sam'.raised = "RuntimeError"
             /\ SamProg(sam') = SamProg(sam)
             /\ sam'.log = <<>>]_vars

\* C4 witness: step(None) was called after another call, with gradients set
C4_Witness ==
    /\ sam.last = "step" /\ ~sam.had_closure /\ sam.raised = "RuntimeError"
    /\ calls = 2 /\ sam.base_steps = 1
    /\ \A q \in SamParams : sam.grad[q].some

\* C9 (as claimed): no first_step or second_step call on parameters that
\* all have gradients raises, in whatever order the calls come.
C9_NoPhaseCallRaises ==
    (sam.last \in {"first_step", "second_step"} /\ \A q \in SamParams : sam.call_grad[q].some)
        => sam.raised = ""

\* C9 (amended): first_step never raises when a parameter has a gradient,
\* whatever ran before; second_step raises (a KeyError, before the base
\* optimizer runs) exactly when a parameter with a gradient has no old_p
\* saved by any earlier first_step, and otherwise completes, also when no
\* first_step preceded it.
C9_OnlyMissingOldPRaises ==
    /\ (sam.last = "first_step" /\ \E q \in SamParams : sam.call_grad[q].some)
          => sam.raised = ""
    /\ sam.last = "second_step"
          => /\ sam.raised = "KeyError"
                   <=> \E q \in SamParams : sam.call_grad[q].some /\ q \notin sam.call_old
             /\ sam.raised \in {"", "KeyError"}
             /\ sam.raised = "KeyError" => ~SamRan("base_step")

\* C9 witness: a second_step with no first_step since the last second_step
\* completed and ran the base optimizer on gradients of every parameter
C9_Witness ==
    /\ sam.last = "second_step" /\ ~sam.from_open /\ sam.raised = ""
    /\ SamRan("base_step")
    /\ \A q \in SamParams : sam.call_grad[q].some

\* ----------------------------------------------------------------------
\*                 Shampoo and ScalableShampoo: the claims
\* ----------------------------------------------------------------------
IsShampoo == which \in {"Shampoo", "ScalableShampoo"}
\* the record of the Shampoo-family optimizer the behaviour exercises
Cur == IF which = "Shampoo" THEN sh ELSE ss

CountOf(log, name) == Cardinality({i \in 1..Len(log) : log[i] = name})

ClaimedReturn(cl) == IF cl.given THEN Some(cl.loss) ELSE None

\* C5 (as claimed): on each of the three optimizers a step that completes
\* returns the loss the closure returned, and none without a closure; on
\* Shampoo and ScalableShampoo the closure runs exactly once, before any
\* parameter is updated.
C5_StepReturnsClosureLoss ==
    /\ (which = "SAM" /\ sam.last = "step" /\ sam.raised = "")
          => sam.ret = ClaimedReturn(sam.closure)
    /\ (IsShampoo /\ Cur.last = "step")
          => /\ Cur.raised = "" => Cur.ret = ClaimedReturn(Cur.closure)
             /\ CountOf(Cur.log, "closure") = IF Cur.closure.given THEN 1 ELSE 0
             /\ Cur.closure.given => Cur.log[1] = "closure"

\* C5 (amended): that holds of Shampoo and ScalableShampoo; SAM.step runs the
\* closure once, between first_step and second_step, and returns none
\* whatever the closure returned, and without a closure it raises.
C5_ShampooReturnsLossSamNone ==
    /\ (which = "SAM" /\ sam.last = "step")
          => /\ sam.ret = None
             /\ ~sam.closure.given => sam.raised = "RuntimeError"
             /\ (sam.closure.given /\ sam.raised = "")
                   => /\ CountOf(sam.log, "closure") = 1
                      /\ sam.log[3] = "closure"
    /\ (IsShampoo /\ Cur.last = "step")
          => /\ Cur.raised = "" => Cur.ret = ClaimedReturn(Cur.closure)
             /\ CountOf(Cur.log, "closure") = IF Cur.closure.given THEN 1 ELSE 0
             /\ Cur.closure.given => Cur.log[1] = "closure"

\* C5 witness: a Shampoo-family step with a closure updated both parameters
\* and returned the closure's loss
C5_Witness ==
    /\ IsShampoo /\ Cur.last = "step" /\ Cur.closure.given
    /\ Cur.ret = Some(2 * Unit)
    /\ Cur.log = <<"closure", "update", "update">>

\* the update one step makes of parameter q, from the state the call found
ShUpdateOf(q) ==
    IF which = "Shampoo"
    THEN Shampoo_update(Cur.before.p[q], Cur.given[q].v, Cur.before.st[q])
    ELSE ScalableShampoo_update(Cur.before.p[q], Cur.given[q].v, Cur.before.st[q])

\* the first parameter, in iteration order, whose gradient is sparse
FirstSparse ==
    CHOOSE q \in ShParams :
        /\ Cur.given[q].some /\ Cur.given[q].sparse
        /\ \A r \in ShParams : (Cur.given[r].some /\ Cur.given[r].sparse) => q <= r

\* C7: a step that meets a sparse gradient raises NoSparseGradientError at
\* that parameter: its value and state (step counter, lazily created
\* entries) are as before the call, no later parameter is touched, and the
\* dense parameters before it keep the update the step made of them.
C7_SparseAbortsStep ==
    (IsShampoo /\ Cur.last = "step" /\ ~Cur.env)
      => /\ (Cur.raised = "" => \A q \in ShParams : ~(Cur.given[q].some /\ Cur.given[q].sparse))
         /\ Cur.raised = "NoSparseGradientError"
              => /\ \E q \in ShParams : Cur.given[q].some /\ Cur.given[q].sparse
                 /\ Cur.ret = None
                 /\ \A q \in ShParams :
                      IF q >= FirstSparse
                      THEN /\ Cur.p[q] = Cur.before.p[q]
                           /\ Cur.st[q] = Cur.before.st[q]
                           /\ Cur.grad[q] = Cur.given[q]
                           /\ q \notin Cur.touched
                      ELSE Cur.given[q].some
                             => /\ q \in Cur.touched
                                /\ Cur.p[q] = ShUpdateOf(q).p
                                /\ Cur.st[q] = ShUpdateOf(q).st
                                /\ Cur.st[q].step = Cur.before.st[q].step + 1

\* C7 witness: the second parameter's gradient was sparse; the first one,
\* dense, was updated, and the second one, updated by an earlier step, kept
\* its value and its step counter of 1
C7_Witness ==
    /\ IsShampoo /\ Cur.last = "step" /\ ~Cur.env
    /\ Cur.raised = "NoSparseGradientError"
    /\ FirstSparse = 2 /\ Cur.given[1].some
    /\ Cur.p[1] # Cur.before.p[1]
    /\ Cur.st[2].step = 1 /\ Cur.p[2] = Cur.before.p[2]

\* what a freshly constructed Shampoo creates lazily, the momentum buffer
\* (a copy of the first gradient) aside
ShFreshPreCond(st) ==
    /\ st.step = 0
    /\ "pre_cond_0" \in st.keys =>
          st.pre_cond_0 = sh_cfg.matrix_eps /\ st.inv_pre_cond_0 = 0

\* C8 (as claimed): reset() leaves every parameter with step counter 0 and
\* with momentum, preconditioner and graft state as a fresh optimizer creates
\* them, so that the steps after it do to the parameters what they do on a
\* fresh optimizer given the same values and gradients.
C8_ResetIsFreshOptimizer ==
    IsShampoo =>
      /\ Cur.last = "reset"
           => \A q \in ShParams :
                IF which = "Shampoo" THEN ShFreshPreCond(Cur.st[q])
                ELSE Cur.st[q] = SsFreshState
      /\ (Cur.last = "step" /\ Cur.twin.on)
           => Cur.raised = Cur.twin.raised /\ Cur.p = Cur.twin.p

\* the blend of momentum_update with wd_update under Nesterov momentum
ClaimedBlend(mu, wdu) ==
    IF ss_cfg.nesterov
    THEN FMul(ss_cfg.beta1, mu)
           + FMul(wdu, IF ss_cfg.moving_average_for_momentum
                       THEN Unit - ss_cfg.beta1 ELSE Unit)
    ELSE mu

\* C6, state part: with k the step counter a step uses for a parameter (one
\* more than the counter it found), k < start_preconditioning_step takes the
\* grafted path (the graft's momentum, graft_grad, no preconditioned_grad)
\* and k >= start_preconditioning_step the Shampoo path (state.momentum, the
\* preconditioned shampoo_grad); the parameter moves by -lr times that blend.
C6_PathOfStep ==
    (ss.last = "step")
      => \A q \in ss.touched :
           LET o == ss.obs[q]
               called == \E i \in 1..Len(o.ev) : o.ev[i] = "preconditioned_grad"
           IN /\ o.k = ss.before.st[q].step + 1
              /\ IF o.k < ss_cfg.start_preconditioning_step
                 THEN /\ o.momentum_update = "graft_momentum"
                      /\ o.wd_update = "graft_grad"
                      /\ ~called
                      /\ ss.p[q] = ss.before.p[q]
                           - FMul(ss_cfg.lr, ClaimedBlend(o.graft_momentum, o.graft_grad))
                 ELSE /\ o.momentum_update = "state.momentum"
                      /\ o.wd_update = "shampoo_grad"
                      /\ called
                      /\ ss.p[q] = ss.before.p[q]
                           - FMul(ss_cfg.lr, ClaimedBlend(o.state_momentum, o.shampoo_grad))

\* C6: the state part always holds, and a parameter whose counter grows from
\* a value that already took the Shampoo path takes the Shampoo path again.
C6_GraftThenShampoo ==
    /\ [](which = "ScalableShampoo" => C6_PathOfStep)
    /\ [][\A q \in ShParams :
            (/\ which = "ScalableShampoo"
             /\ ss'.st[q].step > ss.st[q].step
             /\ ss.st[q].step >= ss_cfg.start_preconditioning_step)
              => ss'.obs[q].momentum_update = "state.momentum"]_vars

\* C6 witness: a parameter's second step, with start_preconditioning_step = 2,
\* took the Shampoo path, under Nesterov momentum and weight decay
C6_Witness ==
    /\ which = "ScalableShampoo" /\ ss.last = "step"
    /\ ss_cfg.start_preconditioning_step = 2 /\ ss_cfg.nesterov
    /\ ss_cfg.weight_decay > 0
    /\ \E q \in ss.touched :
         /\ ss.obs[q].k = 2
         /\ ss.obs[q].momentum_update = "state.momentum"
         /\ ss.p[q] # ss.before.p[q]

\* C10 (as claimed): after a step on a parameter the persisted state.momentum
\* is beta1 * (state.momentum before) + shampoo_grad, shampoo_grad taken
\* after graft rescaling and weight decay, under every nesterov /
\* moving_average_for_momentum setting, before and after
\* start_preconditioning_step.
C10_PersistedMomentum ==
    (which = "ScalableShampoo" /\ ss.last = "step")
      => \A q \in ss.touched :
           ss.st[q].momentum
             = FMul(ss_cfg.beta1, ss.obs[q].m_before) + ss.obs[q].shampoo_grad

\* ----------------------------------------------------------------------
\*                  ScalableShampoo: the statistics schedule
\* ----------------------------------------------------------------------
Has(ev, name) == \E i \in 1..Len(ev) : ev[i] = name
\* the position of the first event called name (Len + 1 if there is none)
PosOf(ev, name) ==
    IF Has(ev, name) THEN CHOOSE i \in 1..Len(ev) :
                             ev[i] = name /\ \A j \in 1..(i - 1) : ev[j] # name
    ELSE Len(ev) + 1

\* the state a step found for parameter q, after the lazy initialisation
SsFound(q) == IF ss.before.st[q].keys = {} THEN SsFreshState ELSE ss.before.st[q]

\* C11: on every step of a parameter with a dense gradient, k being its
\* counter after the increment: graft.add_statistics runs; the
\* pre-conditioner's add_statistics runs iff k is a multiple of
\* statistics_compute_steps (its statistics grow by one gradient exactly
\* then); compute_pre_conditioners runs iff k is a multiple of
\* preconditioning_compute_steps (otherwise the inverse root is the one the
\* step found); and add_statistics comes before compute_pre_conditioners,
\* which comes before preconditioned_grad.
C11_StatisticsSchedule ==
    (which = "ScalableShampoo" /\ ss.last = "step")
      => \A q \in ss.touched :
           LET o == ss.obs[q]
               b == SsFound(q).pre_conditioner
               a == ss.st[q].pre_conditioner
               stats_due == o.k % ss_cfg.statistics_compute_steps = 0
               compute_due == o.k % ss_cfg.preconditioning_compute_steps = 0
           IN /\ o.k = SsFound(q).step + 1
              /\ o.ev[1] = "graft.add_statistics"
              /\ ss_cfg.graft_type = "ADAGRAD"
                   => ss.st[q].graft.statistics
                        = SsFound(q).graft.statistics + FMul(ss.given[q].v, ss.given[q].v)
              /\ Has(o.ev, "add_statistics") <=> stats_due
              /\ a.n_statistics = b.n_statistics + (IF stats_due THEN 1 ELSE 0)
              /\ ~stats_due => a.statistics = b.statistics
              /\ Has(o.ev, "compute_pre_conditioners") <=> compute_due
              /\ IF compute_due
                 THEN a.pre_conditioner = FDiv(Unit, FSqrt(a.statistics))
                 ELSE a.pre_conditioner = b.pre_conditioner
              /\ (Has(o.ev, "add_statistics") /\ Has(o.ev, "compute_pre_conditioners"))
                   => PosOf(o.ev, "add_statistics") < PosOf(o.ev, "compute_pre_conditioners")
              /\ Has(o.ev, "preconditioned_grad")
                   => /\ PosOf(o.ev, "add_statistics") < PosOf(o.ev, "preconditioned_grad")
                               \/ ~Has(o.ev, "add_statistics")
                      /\ PosOf(o.ev, "compute_pre_conditioners")
                             < PosOf(o.ev, "preconditioned_grad")
                               \/ ~Has(o.ev, "compute_pre_conditioners")

\* C11 witness: with both periods 2, a parameter's second step ran all four
\* calls in order after a first step that ran graft.add_statistics alone
C11_Witness ==
    /\ which = "ScalableShampoo" /\ ss.last = "step"
    /\ ss_cfg.statistics_compute_steps = 2 /\ ss_cfg.preconditioning_compute_steps = 2
    /\ \E q \in ss.touched :
         /\ ss.obs[q].k = 2
         /\ ss.obs[q].ev = <<"graft.add_statistics", "add_statistics",
                             "compute_pre_conditioners", "preconditioned_grad">>
         /\ ss.st[q].pre_conditioner.n_statistics = 1

\* C12 (as claimed): whenever a step applies preconditioned_grad to a
\* parameter, compute_pre_conditioners has run for that parameter's
\* pre-conditioner at least once, at this step or an earlier one, after at
\* least one add_statistics: the inverse root used is never the one the
\* pre-conditioner was constructed with.
C12_InverseRootComputedBeforeUse ==
    (which = "ScalableShampoo" /\ ss.last = "step")
      => \A q \in ss.touched :
           Has(ss.obs[q].ev, "preconditioned_grad")
             => ss.st[q].pre_conditioner.n_computed >= 1

\* ----------------------------------------------------------------------
\*          Shampoo and ScalableShampoo: gradients and state entries
\* ----------------------------------------------------------------------
\* C13 (as claimed): a step of Shampoo or ScalableShampoo that completes
\* leaves in every p.grad exactly the value the step read there, under every
\* momentum, weight_decay and graft_type, before and after
\* start_preconditioning_step.
C13_StepLeavesGradients ==
    (IsShampoo /\ Cur.last = "step" /\ ~Cur.env /\ Cur.raised = "")
      => \A q \in ShParams : Cur.grad[q] = Cur.given[q]

\* the entries of self.state[p] that step reads
ReadByStep ==
    IF which = "Shampoo"
    THEN {"step", "pre_cond_0", "inv_pre_cond_0"}
           \cup (IF sh_cfg.momentum > 0 THEN {"momentum_buffer"} ELSE {})
    ELSE {"step", "momentum", "pre_conditioner", "graft"}

\* C14 (as claimed): after any interleaving of reset() and step() on Shampoo
\* or ScalableShampoo every parameter's state is empty or holds every entry
\* step reads, and no step fails on a missing state entry.
C14_StateEmptyOrComplete ==
    IsShampoo
      => /\ \A q \in ShParams : Cur.st[q].keys = {} \/ ReadByStep \subseteq Cur.st[q].keys
         /\ Cur.last = "step" => Cur.raised # "KeyError"

====
